---------------------------- MODULE Spec2Model ----------------------------
(***************************************************************************)
(* q2_moshpit/kraken2/select.py: Kraken2 reports -> per-sample NCBI trees  *)
(* -> one combined tree -> feature table and padded taxonomy strings.      *)
(*                                                                         *)
(* Encoding of the strings the code handles:                               *)
(*   - a rank code ("D", "S1", ...) is a sequence of one-character         *)
(*     strings, so that len(r) and r.startswith(...) are computed;         *)
(*   - a node name f"{r}__{label}" is the pair <<r, label>> (r holds no    *)
(*     "__", so split('__', 1) gives back exactly that pair); the name of  *)
(*     an identifier node is <<<<>>, str(taxid)>>; name None is NoName;    *)
(*   - a report label is [spaces, text]: `spaces` leading blanks, then     *)
(*     the text label.strip() returns.                                     *)
(***************************************************************************)
EXTENDS Integers, Sequences, FiniteSets, TLC

VARIABLES
    pc,         \* where select_kraken_features stands
    node,       \* every skbio.TreeNode created so far: node id -> its fields
    stack,      \* the deque of _kraken_to_ncbi_tree: <<indent, node id>> pairs
    cur,        \* number of the report being read (0 before the first)
    trees,      \* the list `trees` (root node ids)
    rows,       \* the list `rows` of feature-table rows
    full_tree,  \* _combine_ncbi_trees: the accumulating tree
    ti,         \* _combine_ncbi_trees: index in `trees` of the tree being merged
    pending,    \* _combine_ncbi_trees: list(tree.tips()) still to visit
    inputs,     \* the nodes as they were when _combine_ncbi_trees was called
    taxonomy,   \* the rows of the taxonomy frame
    failed,     \* the exception that ended the run, or NoError
    ranks,      \* _pad_ranks: its argument
    padded,     \* _pad_ranks: its outcome
    ppc,        \* _pad_ranks: called or not yet
    report      \* the kept rows of a report that is read a second time

vars == <<pc, node, stack, cur, trees, rows, full_tree, ti, pending, inputs,
          taxonomy, failed, ranks, padded, ppc, report>>

pipeVars == <<pc, node, stack, cur, trees, rows, full_tree, ti, pending,
              inputs, taxonomy, failed, report>>
padVars == <<ranks, padded, ppc>>

---------------------------------------------------------------------------
(* Bounds of the model. *)

MaxSamples == 2      \* reports in the directory (pipeline)
MaxRows == 2         \* kept rows per report (pipeline)
NumIds == 3          \* distinct taxon ids (pipeline)
MaxPipeSpaces == 4   \* leading blanks of a label (pipeline)
MaxCopyRows == 2      \* kept rows of the report read twice (merge of a tree with its copy)
MaxBuildRows == 4    \* kept rows of the report (single-sample builder)
MaxSpaces == 7       \* leading blanks of a label (single-sample builder)
MaxStrains == 2      \* strain entries of a rank path (_pad_ranks)

(* Program constants. *)
Indent == 2              \* _get_indentation(string, indent=2)
CoverageThreshold == 1   \* coverage_threshold = 0.1, in tenths

---------------------------------------------------------------------------
(* Values. *)

NoNode == <<0, 0, "none">>
NoName == <<<< >>, "">>
NoError == [kind |-> "none", line |-> 0]

Root(s) == <<s, 0, "root">>
RankNode(s, i) == <<s, i, "rank">>
IdNode(s, i) == <<s, i, "id">>

Last(seq) == seq[Len(seq)]
Front(seq) == SubSeq(seq, 1, Len(seq) - 1)

RECURSIVE Reverse(_)
Reverse(seq) ==
    IF seq = << >> THEN << >> ELSE Append(Reverse(Tail(seq)), Head(seq))

\* str(row['ncbi_tax_id'])
Str(n) == <<"0", "1", "2", "3", "4", "5", "6", "7", "8", "9">>[n + 1]

\* one character of r.lower()
LowerChar(c) ==
    CASE c = "D" -> "d" [] c = "K" -> "k" [] c = "P" -> "p" [] c = "C" -> "c"
      [] c = "O" -> "o" [] c = "F" -> "f" [] c = "G" -> "g" [] c = "S" -> "s"
      [] c = "U" -> "u" [] c = "R" -> "r" [] OTHER -> c

Lower(r) == [i \in 1..Len(r) |-> LowerChar(r[i])]

\* skbio.TreeNode(name=..., length=...): no parent, no children
TreeNode(name, length) ==
    [name |-> name, length |-> length, parent |-> NoNode,
     children |-> << >>, is_actual_tip |-> FALSE]

---------------------------------------------------------------------------
(* skbio.TreeNode operations the code calls. *)

\* parent.append(child): the child leaves its old parent and becomes the
\* last child of the new one
AppendChild(nd, p, c) ==
    LET old == nd[c].parent
        detached ==
            IF old = NoNode THEN nd
            ELSE [nd EXCEPT ![old].children =
                     SelectSeq(nd[old].children, LAMBDA x : x # c)]
    IN [detached EXCEPT ![c].parent = p,
                        ![p].children = Append(detached[p].children, c)]

RECURSIVE PostorderAll(_, _)
RECURSIVE Postorder(_, _)
\* the postorder traversal of the subtrees of the nodes `kids`, left to right
PostorderAll(nd, kids) ==
    IF kids = << >> THEN << >>
    ELSE Postorder(nd, Head(kids)) \o PostorderAll(nd, Tail(kids))

\* node.postorder(): children first, then the node
Postorder(nd, n) == Append(PostorderAll(nd, nd[n].children), n)

IsTip(nd, n) == nd[n].children = << >>

\* list(tree.tips()): the childless nodes below the root, in postorder
Tips(nd, root) ==
    SelectSeq(PostorderAll(nd, nd[root].children), LAMBDA n : IsTip(nd, n))

RECURSIVE RootOf(_, _)
\* node.root()
RootOf(nd, n) == IF nd[n].parent = NoNode THEN n ELSE RootOf(nd, nd[n].parent)

RECURSIVE Ancestors(_, _)
\* list(node.ancestors()): from the parent up to the root
Ancestors(nd, n) ==
    IF nd[n].parent = NoNode THEN << >>
    ELSE <<nd[n].parent>> \o Ancestors(nd, nd[n].parent)

\* create_caches raises DuplicateNodeError when two named tips share a name
DuplicateTip(nd, root) ==
    LET po == Postorder(nd, root)
    IN \E i, j \in 1..Len(po) :
          /\ i < j
          /\ IsTip(nd, po[i]) /\ IsTip(nd, po[j])
          /\ nd[po[i]].name # NoName
          /\ nd[po[i]].name = nd[po[j]].name

\* Find that matches nothing
FindMissing(nd, n, name) == [status |-> "MissingNodeError", node |-> NoNode]

\* n.find(name): looked up from the root of n's tree, the tips first, then
\* the first internal node of that name in postorder
Find(nd, n, name) ==
    LET root == RootOf(nd, n)
        po == Postorder(nd, root)
        named == SelectSeq(po, LAMBDA x : nd[x].name # NoName /\ nd[x].name = name)
        tips == SelectSeq(named, LAMBDA x : IsTip(nd, x))
        inner == SelectSeq(named, LAMBDA x : ~IsTip(nd, x))
    IN IF DuplicateTip(nd, root)
       THEN [status |-> "DuplicateNodeError", node |-> NoNode]
       ELSE IF tips # << >> THEN [status |-> "found", node |-> tips[1]]
       ELSE IF inner # << >> THEN [status |-> "found", node |-> inner[1]]
       ELSE [status |-> "MissingNodeError", node |-> NoNode]

---------------------------------------------------------------------------
(* Report rows. *)

\* _get_indentation(label)
GetIndentation(spaces) == spaces \div Indent

\* line 29: df['perc_frags_covered'] >= coverage_threshold
Covered(row) == row.cov >= CoverageThreshold

\* line 61: unclassified, root, or non-strain infra-clade
Skipped(r) == r \in {<<"U">>, <<"R">>} \/ (Len(r) > 1 /\ r[1] # "S")

Coverages == {0, 1}

BuildRanks == {<<"D">>, <<"S", "1">>, <<"R">>, <<"D", "1">>}
BuildRows ==
    [rank : BuildRanks, spaces : 0..MaxSpaces, text : {"Bacteria"},
     otu : {1}, cov : Coverages]

PipeRanks == {<<"D">>, <<"S">>, <<"S", "1">>, <<"U">>}
PipeRows ==
    [rank : PipeRanks, spaces : 0..MaxPipeSpaces, text : {"Bacteria"},
     otu : 1..NumIds, cov : Coverages]

---------------------------------------------------------------------------
(* _kraken_to_ncbi_tree *)

\* the rank nodes the current report has made so far
Kept == {n \in DOMAIN node : n[1] = cur /\ n[3] = "rank"}

\* the taxon ids the current report has used so far
UsedIds == {node[n].name : n \in {m \in DOMAIN node : m[1] = cur /\ m[3] = "id"}}

RECURSIVE PopTo(_, _)
\* lines 75-77: pop while the top's indentation >= indent; << >> when the
\* deque ran empty, where stack[-1] raises IndexError
PopTo(stk, indent) ==
    IF stk = << >> THEN << >>
    ELSE IF Last(stk)[1] >= indent THEN PopTo(Front(stk), indent)
    ELSE stk

\* MarksTop with > for >=
MarksTopStrict(parent_indent, indent) == parent_indent > indent

\* line 72: is the node on top of the stack flagged when this row arrives
MarksTop(parent_indent, indent) == parent_indent >= indent

\* lines 64-80 for one kept row; i numbers its nodes
AttachRow(row, i) ==
    LET indent == GetIndentation(row.spaces)
        name == <<Lower(row.rank), row.text>>
        n == RankNode(cur, i)
        idn == IdNode(cur, i)
        made == (n :> [TreeNode(name, 1) EXCEPT !.children = <<idn>>])
                @@ (idn :> [TreeNode(<<<< >>, Str(row.otu)>>, 0)
                               EXCEPT !.parent = n])
                @@ node
        top == Last(stack)
        marks == MarksTop(top[1], indent)
        marked == IF marks
                  THEN [made EXCEPT ![made[top[2]].children[1]].is_actual_tip = TRUE]
                  ELSE made
        popped == PopTo(stack, indent)
    IN IF marks /\ node[top[2]].children = << >>
       THEN /\ failed' = [kind |-> "IndexError", line |-> 73]
            /\ pc' = "error"
            /\ UNCHANGED <<node, stack>>
       ELSE IF popped = << >>
       THEN /\ failed' = [kind |-> "IndexError", line |-> 77]
            /\ pc' = "error"
            /\ UNCHANGED <<node, stack>>
       ELSE /\ node' = AppendChild(marked, Last(popped)[2], n)
            /\ stack' = Append(popped, <<indent, n>>)
            /\ UNCHANGED <<pc, failed>>

\* one turn of the loop of line 56 (a row the filters drop changes nothing)
ProcessRow(row, maxRows) ==
    /\ pc = "build"
    /\ IF ~Covered(row) \/ Skipped(row.rank)
       THEN UNCHANGED <<pc, node, stack, failed>>
       ELSE /\ Cardinality(Kept) < maxRows
            /\ AttachRow(row, Cardinality(Kept) + 1)
    /\ UNCHANGED <<cur, trees, rows, full_tree, ti, pending, inputs, taxonomy>>
    /\ UNCHANGED padVars

\* lines 82-85: the last entry is always a tip
MarkLast(nd, stk) ==
    LET parent_node == Last(stk)[2]
    IN IF nd[parent_node].children # << >>
       THEN [nd EXCEPT ![nd[parent_node].children[1]].is_actual_tip = TRUE]
       ELSE nd

\* _ncbi_tree_to_tips(tree)
NcbiTreeToTips(nd, root) ==
    LET actual == SelectSeq(Tips(nd, root), LAMBDA n : nd[n].is_actual_tip)
    IN [i \in 1..Len(actual) |-> nd[actual[i]].name]

\* lines 26-28: the next report of the directory; line 54-55: a new tree
NextReport(maxSamples) ==
    /\ pc = "reports"
    /\ cur < maxSamples
    /\ cur' = cur + 1
    /\ node' = (Root(cur + 1) :> TreeNode(NoName, 0)) @@ node
    /\ stack' = <<<<0, Root(cur + 1)>>>>
    /\ pc' = "build"
    /\ UNCHANGED <<trees, rows, full_tree, ti, pending, inputs, taxonomy, failed>>
    /\ UNCHANGED <<report, padVars>>

\* the report has no more rows: lines 82-87, then lines 31-36
ReturnTree ==
    /\ pc = "build"
    /\ LET done == MarkLast(node, stack)
           tips == NcbiTreeToTips(done, Root(cur))
       IN /\ node' = done
          /\ rows' = IF tips # << >>
                     THEN Append(rows, [name |-> cur, index |-> tips])
                     ELSE rows
    /\ trees' = Append(trees, Root(cur))
    /\ stack' = << >>
    /\ pc' = "reports"
    /\ UNCHANGED <<cur, full_tree, ti, pending, inputs, taxonomy, failed>>
    /\ UNCHANGED <<report, padVars>>

---------------------------------------------------------------------------
(* _pad_ranks *)

\* f'{r}__{label}'
Plain(r, label) == [r |-> r, text |-> label, via |-> << >>]

\* f'{r}__containing {last_good_label}'
Containing(r, last_good_label) ==
    [r |-> r, text |-> last_good_label.text, via |-> last_good_label.r]

\* line 115
order == <<<<"d">>, <<"k">>, <<"p">>, <<"c">>, <<"o">>, <<"f">>, <<"g">>, <<"s">>>>

\* line 122: a strain-level entry
IsStrain(r) == Len(r) > 1 /\ r[1] = "s"

RECURSIVE ScanRanks(_, _, _)
\* lines 119-123 over the entries `rev` still to visit
ScanRanks(rev, available, tax) ==
    IF rev = << >> THEN [available |-> available, taxonomy |-> tax]
    ELSE LET r == Head(rev)[1]
             label == Head(rev)[2]
         IN ScanRanks(Tail(rev), (r :> label) @@ available,
                      IF IsStrain(r) THEN Append(tax, Plain(r, label)) ELSE tax)

\* MirrorsDomain that knows Bacteria only
MirrorsBacteriaOnly(r, available) ==
    /\ r = <<"k">>
    /\ <<"d">> \in DOMAIN available
    /\ available[<<"d">>] = "Bacteria"

\* line 132: kingdom mirrors domain
MirrorsDomain(r, available) ==
    /\ r = <<"k">>
    /\ <<"d">> \in DOMAIN available
    /\ available[<<"d">>] \in {"Bacteria", "Archaea"}

\* line 131: `elif taxonomy`
Emitted(tax) == tax # << >>

RECURSIVE EmitRanks(_, _, _, _)
\* lines 125-137 over the ranks `rs` still to visit; last_good_label is
\* << >> while the local is unbound, <<entry>> once it is assigned
EmitRanks(rs, available, tax, last_good_label) ==
    IF rs = << >> THEN [ok |-> TRUE, taxonomy |-> tax]
    ELSE LET r == Head(rs)
         IN IF r \in DOMAIN available
            THEN LET e == Plain(r, available[r])
                 IN EmitRanks(Tail(rs), available, Append(tax, e), <<e>>)
            ELSE IF Emitted(tax)
            THEN IF MirrorsDomain(r, available)
                 THEN EmitRanks(Tail(rs), available,
                                Append(tax, Plain(<<"k">>, available[<<"d">>])),
                                last_good_label)
                 ELSE IF last_good_label = << >>
                 THEN [ok |-> FALSE, taxonomy |-> << >>]  \* UnboundLocalError
                 ELSE EmitRanks(Tail(rs), available,
                                Append(tax, Containing(r, last_good_label[1])),
                                last_good_label)
            ELSE EmitRanks(Tail(rs), available, tax, last_good_label)

\* _pad_ranks(ranks); the string ';'.join(...) is the sequence of its entries
PadRanks(rks) ==
    LET scanned == ScanRanks(Reverse(rks), << >>, << >>)
        out == EmitRanks(Reverse(order), scanned.available, scanned.taxonomy, << >>)
    IN IF out.ok THEN [ok |-> TRUE, taxonomy |-> Reverse(out.taxonomy)] ELSE out

---------------------------------------------------------------------------
(* _combine_ncbi_trees *)

RECURSIVE Graft(_, _, _)
\* lines 101-106: `parents` holds the ancestors still to pop, the next one
\* last
Graft(nd, matching, parents) ==
    IF parents = << >> THEN [status |-> "ok", node |-> nd]
    ELSE LET n == Last(parents)
             hit == Find(nd, matching, nd[n].name)
         IN CASE hit.status = "found" -> Graft(nd, hit.node, Front(parents))
              [] hit.status = "MissingNodeError" ->
                    Graft(AppendChild(nd, matching, n), matching, Front(parents))
              [] OTHER -> [status |-> hit.status, node |-> nd]

\* line 38 once the directory has no more reports, then line 91
Combine ==
    /\ pc = "reports"
    /\ inputs' = node
    /\ IF trees = << >>
       THEN /\ failed' = [kind |-> "IndexError", line |-> 91]
            /\ pc' = "error"
            /\ UNCHANGED <<full_tree, ti>>
       ELSE /\ full_tree' = trees[1]
            /\ ti' = 1
            /\ pc' = "combine"
            /\ UNCHANGED failed
    /\ UNCHANGED <<node, stack, cur, trees, rows, pending, taxonomy>>
    /\ UNCHANGED <<report, padVars>>

\* lines 92-93: the next tree of trees[1:], and the list of its tips
CombineNextTree ==
    /\ pc = "combine"
    /\ pending = << >>
    /\ ti < Len(trees)
    /\ ti' = ti + 1
    /\ pending' = Tips(node, trees[ti + 1])
    /\ UNCHANGED <<pc, node, stack, cur, trees, rows, full_tree, inputs,
                   taxonomy, failed>>
    /\ UNCHANGED <<report, padVars>>

\* lines 94-106 for the next tip of the list
CombineTip ==
    /\ pc = "combine"
    /\ pending # << >>
    /\ LET tip == Head(pending)
           hit == Find(node, full_tree, node[tip].name)
           parents == Front(Ancestors(node, tip))  \* ignore unnamed root
           grafted == Graft(node, full_tree, parents)
       IN CASE hit.status = "found" ->
                  /\ pending' = Tail(pending)
                  /\ UNCHANGED <<pc, node, failed>>
            [] hit.status = "MissingNodeError" /\ grafted.status = "ok" ->
                  /\ node' = grafted.node
                  /\ pending' = Tail(pending)
                  /\ UNCHANGED <<pc, failed>>
            [] OTHER ->
                  /\ failed' = [kind |-> "DuplicateNodeError",
                                line |-> IF hit.status = "MissingNodeError"
                                         THEN 104 ELSE 96]
                  /\ pc' = "error"
                  /\ UNCHANGED <<node, pending>>
    /\ UNCHANGED <<stack, cur, trees, rows, full_tree, ti, inputs, taxonomy>>
    /\ UNCHANGED <<report, padVars>>

\* line 107
CombineReturn ==
    /\ pc = "combine"
    /\ pending = << >>
    /\ ti = Len(trees)
    /\ pc' = "taxonomy"
    /\ UNCHANGED <<node, stack, cur, trees, rows, full_tree, ti, pending,
                   inputs, taxonomy, failed>>
    /\ UNCHANGED <<report, padVars>>

---------------------------------------------------------------------------
(* _to_taxonomy *)

\* the nodes tree.to_taxonomy() yields: every childless node, the root
\* itself when it has no children, left to right
TaxonomyTips(nd, root) ==
    SelectSeq(Postorder(nd, root), LAMBDA n : IsTip(nd, n))

\* the lineage to_taxonomy gives a tip: the names of its named ancestors,
\* from the root down
Lineage(nd, n) ==
    LET up == Ancestors(nd, n)
        named == SelectSeq(up, LAMBDA a : nd[a].name # NoName)
    IN Reverse([i \in 1..Len(named) |-> nd[named[i]].name])

\* line 143-144
TaxonomyRows(nd, root) ==
    LET tips == TaxonomyTips(nd, root)
    IN [i \in 1..Len(tips) |->
           [id |-> nd[tips[i]].name, taxon |-> PadRanks(Lineage(nd, tips[i]))]]

\* lines 40-46
ToTaxonomy ==
    /\ pc = "taxonomy"
    /\ LET made == TaxonomyRows(node, full_tree)
       IN IF \E i \in 1..Len(made) : ~made[i].taxon.ok
          THEN /\ failed' = [kind |-> "UnboundLocalError", line |-> 137]
               /\ pc' = "error"
               /\ UNCHANGED taxonomy
          ELSE /\ taxonomy' = [i \in 1..Len(made) |->
                                 [id |-> made[i].id,
                                  taxon |-> made[i].taxon.taxonomy]]
               /\ pc' = "done"
               /\ UNCHANGED failed
    /\ UNCHANGED <<node, stack, cur, trees, rows, full_tree, ti, pending, inputs>>
    /\ UNCHANGED <<report, padVars>>

---------------------------------------------------------------------------
(* Initial state. *)

InitPipe ==
    /\ pc = "reports"
    /\ node = << >>
    /\ stack = << >>
    /\ cur = 0
    /\ trees = << >>
    /\ rows = << >>
    /\ full_tree = NoNode
    /\ ti = 0
    /\ pending = << >>
    /\ inputs = << >>
    /\ taxonomy = << >>
    /\ failed = NoError
    /\ report = << >>

InitPadIdle ==
    /\ ranks = << >>
    /\ padded = [ok |-> TRUE, taxonomy |-> << >>]
    /\ ppc = "idle"

(* The single-sample builder alone: one report, any rows. *)
BuildRow ==
    \E row \in BuildRows : ProcessRow(row, MaxBuildRows) /\ UNCHANGED report
BuildStart == NextReport(1)
InitBuild == InitPipe /\ InitPadIdle
NextBuild == BuildStart \/ BuildRow \/ ReturnTree
SpecBuild == InitBuild /\ [][NextBuild]_vars

(* select_kraken_features over a directory of reports. *)
\* a report holds each taxon id once
PipeRow ==
    \E row \in PipeRows :
        /\ <<<< >>, Str(row.otu)>> \notin UsedIds
        /\ ProcessRow(row, MaxRows)
        /\ UNCHANGED report
PipeStart == NextReport(MaxSamples)
Init == InitPipe /\ InitPadIdle
Next ==
    \/ PipeStart
    \/ PipeRow
    \/ ReturnTree
    \/ Combine
    \/ CombineNextTree
    \/ CombineTip
    \/ CombineReturn
    \/ ToTaxonomy
Spec == Init /\ [][Next]_vars

(* _combine_ncbi_trees over a tree and an identical copy of it: the same
   report is read twice. *)
CopyStart == NextReport(2)
\* a row of the first reading
CopyFirstRow ==
    /\ cur = 1
    /\ \E row \in PipeRows :
           /\ <<<< >>, Str(row.otu)>> \notin UsedIds
           /\ ProcessRow(row, MaxCopyRows)
           /\ report' = IF Covered(row) /\ ~Skipped(row.rank)
                        THEN Append(report, row) ELSE report
\* the next row of the second reading
CopyAgainRow ==
    /\ cur = 2
    /\ report # << >>
    /\ ProcessRow(Head(report), MaxCopyRows)
    /\ report' = Tail(report)
CopyReturn == (cur = 2 => report = << >>) /\ ReturnTree
CopyCombine == cur = 2 /\ Combine
NextCopy ==
    \/ CopyStart
    \/ CopyFirstRow
    \/ CopyAgainRow
    \/ CopyReturn
    \/ CopyCombine
    \/ CombineNextTree
    \/ CombineTip
    \/ CombineReturn
SpecCopy == Init /\ [][NextCopy]_vars

(* _pad_ranks alone, over rank paths in root-to-tip order. *)
Domains == {"Bacteria", "Archaea", "Eukaryota"}
Below == <<<<"k">>, <<"p">>, <<"c">>, <<"o">>, <<"f">>, <<"g">>, <<"s">>>>

\* the path holding the domain entry dom (<< >>: none), the ranks of Below
\* picked by `has`, then n strain entries
RankPath(dom, has, n) ==
    dom
    \o [i \in 1..Len(SelectSeq(Below, LAMBDA r : r \in has)) |->
           <<SelectSeq(Below, LAMBDA r : r \in has)[i], "X">>]
    \o [i \in 1..n |-> <<<<"s", Str(i)>>, "X">>]

RankPaths ==
    {RankPath(dom, has, n) :
        dom \in {<< >>} \cup {<<<<<<"d">>, l>>>> : l \in Domains},
        has \in SUBSET {Below[i] : i \in 1..Len(Below)},
        n \in 0..MaxStrains}

InitPad ==
    /\ InitPipe
    /\ ranks \in RankPaths
    /\ padded = [ok |-> TRUE, taxonomy |-> << >>]
    /\ ppc = "idle"

CallPadRanks ==
    /\ ppc = "idle"
    /\ padded' = PadRanks(ranks)
    /\ ppc' = "returned"
    /\ UNCHANGED ranks
    /\ UNCHANGED pipeVars

NextPad == CallPadRanks
SpecPad == InitPad /\ [][NextPad]_vars


---------------------------------------------------------------------------
(* Properties. *)

SeqToSet(seq) == {seq[i] : i \in 1..Len(seq)}

\* the nodes of the tree rooted at root
NodesOf(nd, root) == {n \in DOMAIN nd : RootOf(nd, n) = root}
\* its identifier nodes and its rank nodes
IdNodesOf(nd, root) == {n \in NodesOf(nd, root) : n[3] = "id"}
RankNodesOf(nd, root) == {n \in NodesOf(nd, root) : n[3] = "rank"}
IdNames(nd, root) == {nd[n].name : n \in IdNodesOf(nd, root)}

\* how many times x is listed as a child
TimesChild(nd, x) ==
    Cardinality({<<p, i>> \in (DOMAIN nd) \X (1..Cardinality(DOMAIN nd)) :
                    i <= Len(nd[p].children) /\ nd[p].children[i] = x})

\* the rank path of a node: the names from the root down to it
PathOf(nd, n) == Append(Lineage(nd, n), nd[n].name)

RECURSIVE Canon(_, _)
\* the tree below n without the node ids: names, lengths, flags, child order
Canon(nd, n) ==
    <<nd[n].name, nd[n].length, nd[n].is_actual_tip,
      [i \in 1..Len(nd[n].children) |-> Canon(nd, nd[n].children[i])]>>

\* _kraken_to_ncbi_tree has returned the tree of report 1
Returned == pc = "reports" /\ Len(trees) >= 1

TipsExact ==
    \A x \in {n \in DOMAIN node : n[1] = 1 /\ n[3] = "id"} :
        LET r == RankNode(1, x[2])
        IN /\ node[x].parent = r
           /\ TimesChild(node, x) = 1
           /\ RootOf(node, x) = Root(1)
           /\ node[x].is_actual_tip <=>
                  (\A c \in SeqToSet(node[r].children) : c[3] # "rank")
           /\ x[2] = Cardinality(RankNodesOf(node, Root(1)))
                  => node[x].is_actual_tip

\* the identifier child of the node on top of the stack, if it has one
TopIdChild ==
    IF stack = << >> \/ node[Last(stack)[2]].children = << >> THEN {}
    ELSE {node[Last(stack)[2]].children[1]}

OnlyTopNewlyFlagged ==
    (pc = "build" /\ pc' = "build") =>
        \A x \in DOMAIN node :
            (~node[x].is_actual_tip /\ node'[x].is_actual_tip) => x \in TopIdChild

(* C1: in the tree _kraken_to_ncbi_tree returns every identifier node has
   exactly one parent, the rank node of its row, and is flagged
   is_actual_tip exactly when that rank node has no rank child; the
   identifier node of the last kept row is flagged; and a row's arrival
   newly flags at most the identifier child of the node then on top of the
   stack, however many levels it pops. *)
C1_TipsExact == [](Returned => TipsExact) /\ [][OnlyTopNewlyFlagged]_vars

\* a returned tree built with a two-level pop: rows at depths 1, 2, 1
C1_Witness ==
    /\ Returned
    /\ Cardinality(RankNodesOf(node, Root(1))) >= 3
    /\ node[RankNode(1, 2)].parent = RankNode(1, 1)
    /\ node[RankNode(1, 3)].parent = Root(1)
    /\ ~node[IdNode(1, 1)].is_actual_tip
    /\ node[IdNode(1, 2)].is_actual_tip

(* C6: _kraken_to_ncbi_tree has no error outcome: whatever the rows'
   indentation (level 0 included) it never raises, and the stack is never
   empty when its top is read. *)
C6_BuilderNeverRaises == ~(pc = "error" /\ failed.line \in {73, 77})

---------------------------------------------------------------------------

\* _combine_ncbi_trees was called with a non-empty list
CombineCalled == inputs # << >>
\* ... and has returned
Merged ==
    CombineCalled /\ (pc \in {"taxonomy", "done"} \/ (pc = "error" /\ failed.line = 137))

InputIds == UNION {IdNames(inputs, trees[t]) : t \in 1..Len(trees)}

\* an input tree holds a rank path once and a taxon id once
WellFormed(t) ==
    /\ \A m, n \in RankNodesOf(inputs, trees[t]) :
           PathOf(inputs, m) = PathOf(inputs, n) => m = n
    /\ \A m, n \in IdNodesOf(inputs, trees[t]) :
           inputs[m].name = inputs[n].name => m = n

(* C2: merging is prefix-preserving: for two sample trees the merged tree
   holds one chain of rank nodes per rank path, and every identifier node of
   either sample is in the merged tree under the rank path it had in its
   sample. *)
C2_PrefixPreserving ==
    (Merged /\ Len(trees) = 2 /\ WellFormed(1) /\ WellFormed(2)) =>
        /\ \A m, n \in RankNodesOf(node, full_tree) :
               PathOf(node, m) = PathOf(node, n) => m = n
        /\ \A t \in 1..2 : \A x \in IdNodesOf(inputs, trees[t]) :
               \E y \in IdNodesOf(node, full_tree) :
                   /\ node[y].name = inputs[x].name
                   /\ Lineage(node, y) = Lineage(inputs, x)

\* the second tree is an identical copy of the first
IdenticalInputs ==
    /\ CombineCalled
    /\ Len(trees) = 2
    /\ Canon(inputs, trees[1]) = Canon(inputs, trees[2])

(* C3: merging a tree with an identical copy of itself grafts nothing, does
   not raise, and returns a tree structurally identical to the original. *)
C3_Idempotent ==
    IdenticalInputs =>
        /\ node = inputs
        /\ ~(pc = "error" /\ failed.line \in {96, 104})
        /\ Merged => /\ full_tree = trees[1]
                     /\ Canon(node, full_tree) = Canon(inputs, trees[2])

\* a tree of two taxa merged with its copy
C3_Witness ==
    /\ Merged
    /\ IdenticalInputs
    /\ Cardinality(IdNodesOf(node, full_tree)) = 2
    /\ Cardinality(IdNodesOf(node, trees[2])) = 2

(* C4: the merged tree holds exactly the taxon ids of the input trees. *)
C4_MergedIsUnion == Merged => IdNames(node, full_tree) = InputIds

\* the taxon ids with an entry in the taxonomy frame
TaxonomyIds == {taxonomy[i].id : i \in 1..Len(taxonomy)} \ {NoName}

(* C5: the taxonomy has an entry for an id exactly when the id's
   node is an actual tip of the merged tree. *)
C5_ActualTipsOnly ==
    pc = "done" =>
        TaxonomyIds = {node[n].name : n \in {m \in IdNodesOf(node, full_tree) :
                                                node[m].is_actual_tip}}

(* C7: empty input (no reports, so an empty list of trees) ends in a
   defined empty-result error. *)
C7_EmptyInputDefined ==
    (cur = 0 /\ pc # "reports") =>
        (pc = "error" /\ failed.kind = "EmptyResultError")

\* every input tree holds each taxon id at most once
InputsUnique ==
    \A t \in 1..Len(trees) : \A m, n \in IdNodesOf(inputs, trees[t]) :
        inputs[m].name = inputs[n].name => m = n

\* no taxon id names two identifier nodes of the accumulating tree, and each
\* of its rank nodes has one identifier child, its first
UniqueAndIdFirst ==
    /\ \A m, n \in IdNodesOf(node, full_tree) : node[m].name = node[n].name => m = n
    /\ \A r \in RankNodesOf(node, full_tree) :
           /\ node[r].children # << >>
           /\ node[r].children[1][3] = "id"
           /\ \A i \in 2..Len(node[r].children) : node[r].children[i][3] = "rank"

(* C10: if every input tree holds each taxon id at most once,
   then after every graft step, and in the returned tree, every taxon id
   names at most one identifier node and every rank node has exactly one
   identifier child, its first child. *)
C10_UniqueIds == (CombineCalled /\ InputsUnique) => UniqueAndIdFirst

---------------------------------------------------------------------------

HasRank(path, r) == \E i \in 1..Len(path) : path[i][1] = r
LabelOf(path, r) == path[CHOOSE i \in 1..Len(path) : path[i][1] = r][2]

\* the path has no k entry and its domain is Bacteria or Archaea
MirrorCase ==
    /\ ppc = "returned"
    /\ ~HasRank(ranks, <<"k">>)
    /\ HasRank(ranks, <<"d">>)
    /\ LabelOf(ranks, <<"d">>) \in {"Bacteria", "Archaea"}

\* the string holds k__<domain> right after d__<domain>
KingdomSlot ==
    LET l == LabelOf(ranks, <<"d">>)
        tax == padded.taxonomy
    IN \E i \in 1..(Len(tax) - 1) :
          tax[i] = Plain(<<"d">>, l) /\ tax[i + 1] = Plain(<<"k">>, l)

FinerThanKingdom == {<<"p">>, <<"c">>, <<"o">>, <<"f">>, <<"g">>, <<"s">>}

(* C8 as stated: for every rank path with no k entry and d__Archaea or
   d__Bacteria, the rendered string holds k__<domain> right after the domain
   entry. *)
C8_KingdomMirrors == MirrorCase => (padded.ok /\ KingdomSlot)

(* C8: for every such path that also has an entry of a rank finer than
   kingdom (p, c, o, f, g or s), the string _pad_ranks returns holds
   k__<domain> right after the domain entry; the path of the domain entry
   alone is rendered as that entry alone. *)
C8_KingdomMirrorsBelow ==
    MirrorCase =>
        /\ ((\E r \in FinerThanKingdom : HasRank(ranks, r)) /\ padded.ok) => KingdomSlot
        /\ Len(ranks) = 1 => (padded.ok /\ padded.taxonomy = <<Plain(<<"d">>, ranks[1][2])>>)

\* d__Archaea, no kingdom, a genus below
C8_Witness ==
    /\ MirrorCase
    /\ LabelOf(ranks, <<"d">>) = "Archaea"
    /\ HasRank(ranks, <<"g">>) /\ ~HasRank(ranks, <<"p">>)
    /\ padded.ok
    /\ KingdomSlot

\* position in `order` of the finest standard rank of the path (0: none)
Finest ==
    LET present == {i \in 1..Len(order) : HasRank(ranks, order[i])}
    IN IF present = {} THEN 0 ELSE CHOOSE i \in present : \A j \in present : j <= i

\* the entry the padding policy describes for order[i], i <= Finest
Described(i) ==
    LET r == order[i]
    IN IF HasRank(ranks, r) THEN Plain(r, LabelOf(ranks, r))
       ELSE IF r = <<"k">> /\ HasRank(ranks, <<"d">>)
                           /\ LabelOf(ranks, <<"d">>) \in {"Bacteria", "Archaea"}
       THEN Plain(r, LabelOf(ranks, <<"d">>))
       ELSE LET j == CHOOSE j \in (i + 1)..Len(order) :
                        /\ HasRank(ranks, order[j])
                        /\ \A k \in (i + 1)..(j - 1) : ~HasRank(ranks, order[k])
            IN Containing(r, Plain(order[j], LabelOf(ranks, order[j])))

(* C9: _pad_ranks returns a string for every rank path, never an error: the
   standard ranks from d down to the finest one present, each as its own
   entry, as k mirroring d, or as a placeholder naming the nearest finer
   entry, followed by the strain entries in path order. *)
C9_PadTotal ==
    ppc = "returned" =>
        /\ padded.ok
        /\ padded.taxonomy =
               [i \in 1..Finest |-> Described(i)]
               \o [i \in 1..Len(SelectSeq(ranks, LAMBDA e : IsStrain(e[1]))) |->
                      Plain(SelectSeq(ranks, LAMBDA e : IsStrain(e[1]))[i][1],
                            SelectSeq(ranks, LAMBDA e : IsStrain(e[1]))[i][2])]

=============================================================================
